---- MODULE Spec2Model ----
(***************************************************************************)
(* Model of lvgl/src/support.rs: the error conversions, the Color wrapper, *)
(* the Event taxonomy with its decode (TryFrom) and encode (From), the     *)
(* generic trampoline event_callback, and the enum-to-integer conversions. *)
(*                                                                         *)
(* Two specifications share the variables:                                 *)
(*   Spec      the trampoline: objects, their user_data slots, boxed       *)
(*             closures, and dispatches through event_callback;            *)
(*   ConvSpec  the pure conversions, each applied to inputs drawn from     *)
(*             bounded sets, with the operation, argument and result       *)
(*             recorded in op, arg, res.                                   *)
(*                                                                         *)
(* The native constants of lvgl_sys are those of the LVGL v8 headers the   *)
(* bindings are generated from.                                            *)
(***************************************************************************)
EXTENDS Integers, Sequences, FiniteSets, TLC

VARIABLES
    user_data,   \* [Objs -> 0..NClosure]: (*obj).user_data, 0 is the null pointer
    heap,        \* [Closures -> {"unalloc","live","freed"}]: the boxed closures
    valid,       \* the objects T::from_raw accepts
    prev,        \* [Objs -> SUBSET Closures]: closures a slot held before (history)
    last,        \* the record of the last dispatch through event_callback
    invoked,     \* [Closures -> Nat]: how often each closure was invoked (history)
    qualified,   \* [Closures -> Nat]: well-formed dispatches per closure (history)
    ndisp,       \* number of dispatches so far
    halted,      \* the process was aborted (a panic in an extern "C" fn, a fault)
    op,          \* ConvSpec: the conversion applied last
    arg,         \* ConvSpec: its argument
    res          \* ConvSpec: its result

vars == <<user_data, heap, valid, prev, last, invoked, qualified, ndisp, halted,
          op, arg, res>>

tvars == <<user_data, heap, valid, prev, last, invoked, qualified, ndisp, halted>>

cvars == <<op, arg, res>>

(***************************************************************************)
(* Bounds of the model.                                                    *)
(***************************************************************************)
NObj == 2

NClosure == 2

MaxDispatch == 2

MaxCode == 140

MaxSpecial == 1

MaxSample == 3

(***************************************************************************)
(* Native event codes: lv_event_code_t of LVGL v8 (lv_event.h).            *)
(***************************************************************************)
LV_EVENT_PRESSED == 1

LV_EVENT_PRESSING == 2

LV_EVENT_PRESS_LOST == 3

LV_EVENT_SHORT_CLICKED == 4

LV_EVENT_LONG_PRESSED == 5

LV_EVENT_LONG_PRESSED_REPEAT == 6

LV_EVENT_CLICKED == 7

LV_EVENT_RELEASED == 8

LV_EVENT_SCROLL == 11

LV_EVENT_GESTURE == 12

LV_EVENT_KEY == 13

LV_EVENT_FOCUSED == 14

LV_EVENT_DRAW_MAIN_BEGIN == 20

LV_EVENT_DRAW_MAIN == 21

LV_EVENT_DRAW_MAIN_END == 22

LV_EVENT_DRAW_POST_BEGIN == 23

LV_EVENT_DRAW_POST == 24

LV_EVENT_DRAW_POST_END == 25

LV_EVENT_DRAW_PART_BEGIN == 26

LV_EVENT_DRAW_PART_END == 27

LV_EVENT_VALUE_CHANGED == 28

LV_EVENT_DELETE == 33

\* A value far beyond the enumeration, standing for an out-of-range code.
CodeMax == 65535 * 32768

\* The values of lv_event_code_t the model hands to decode.
Codes == (0..MaxCode) \cup {CodeMax}

(***************************************************************************)
(* Event<S> and PointerEvent.  An event is a record: tag is the variant,   *)
(* ptr the payload of Pointer(_) and sp the payload of Special(_).         *)
(***************************************************************************)
PointerEvent == {"DragBegin", "DragEnd", "DragThrowBegin"}

PayloadFree ==
    {"Pressed", "Pressing", "PressLost", "ShortClicked", "Clicked", "LongPressed",
     "LongPressedRepeat", "Released", "ValueChanged", "DrawMain", "DrawMainBegin",
     "DrawMainEnd", "DrawPartBegin", "DrawPartEnd", "DrawPost", "DrawPostBegin",
     "DrawPostEnd", "Focused"}

Ev(t) == [tag |-> t, ptr |-> "-", sp |-> -1]

Event ==
    {Ev(t) : t \in PayloadFree}
    \cup {[tag |-> "Pointer", ptr |-> p, sp |-> -1] : p \in PointerEvent}
    \cup {[tag |-> "Special", ptr |-> "-", sp |-> s] : s \in 0..MaxSpecial}

\* Result<Event<S>, ()>
Ok(e) == [ok |-> TRUE, ev |-> e]

Err == [ok |-> FALSE, ev |-> Ev("-")]

\* A decode that also accepts the native focus code.
TryFromFocusToo(value) ==
    CASE value = LV_EVENT_PRESSED -> Ok(Ev("Pressed"))
      [] value = LV_EVENT_PRESSING -> Ok(Ev("Pressing"))
      [] value = LV_EVENT_PRESS_LOST -> Ok(Ev("PressLost"))
      [] value = LV_EVENT_SHORT_CLICKED -> Ok(Ev("ShortClicked"))
      [] value = LV_EVENT_CLICKED -> Ok(Ev("Clicked"))
      [] value = LV_EVENT_LONG_PRESSED -> Ok(Ev("LongPressed"))
      [] value = LV_EVENT_LONG_PRESSED_REPEAT -> Ok(Ev("LongPressedRepeat"))
      [] value = LV_EVENT_RELEASED -> Ok(Ev("Released"))
      [] value = LV_EVENT_VALUE_CHANGED -> Ok(Ev("ValueChanged"))
      [] value = LV_EVENT_DRAW_MAIN -> Ok(Ev("DrawMain"))
      [] value = LV_EVENT_DRAW_MAIN_BEGIN -> Ok(Ev("DrawMainBegin"))
      [] value = LV_EVENT_DRAW_MAIN_END -> Ok(Ev("DrawMainEnd"))
      [] value = LV_EVENT_DRAW_PART_BEGIN -> Ok(Ev("DrawPartBegin"))
      [] value = LV_EVENT_DRAW_PART_END -> Ok(Ev("DrawPartEnd"))
      [] value = LV_EVENT_DRAW_POST -> Ok(Ev("DrawPost"))
      [] value = LV_EVENT_DRAW_POST_BEGIN -> Ok(Ev("DrawPostBegin"))
      [] value = LV_EVENT_DRAW_POST_END -> Ok(Ev("DrawPostEnd"))
      [] value = LV_EVENT_FOCUSED -> Ok(Ev("Focused"))
      [] OTHER -> Err

\* impl TryFrom<lv_event_code_t> for Event<S>: the match of try_from.
try_from(value) ==
    CASE value = LV_EVENT_PRESSED -> Ok(Ev("Pressed"))
      [] value = LV_EVENT_PRESSING -> Ok(Ev("Pressing"))
      [] value = LV_EVENT_PRESS_LOST -> Ok(Ev("PressLost"))
      [] value = LV_EVENT_SHORT_CLICKED -> Ok(Ev("ShortClicked"))
      [] value = LV_EVENT_CLICKED -> Ok(Ev("Clicked"))
      [] value = LV_EVENT_LONG_PRESSED -> Ok(Ev("LongPressed"))
      [] value = LV_EVENT_LONG_PRESSED_REPEAT -> Ok(Ev("LongPressedRepeat"))
      [] value = LV_EVENT_RELEASED -> Ok(Ev("Released"))
      [] value = LV_EVENT_VALUE_CHANGED -> Ok(Ev("ValueChanged"))
      [] value = LV_EVENT_DRAW_MAIN -> Ok(Ev("DrawMain"))
      [] value = LV_EVENT_DRAW_MAIN_BEGIN -> Ok(Ev("DrawMainBegin"))
      [] value = LV_EVENT_DRAW_MAIN_END -> Ok(Ev("DrawMainEnd"))
      [] value = LV_EVENT_DRAW_PART_BEGIN -> Ok(Ev("DrawPartBegin"))
      [] value = LV_EVENT_DRAW_PART_END -> Ok(Ev("DrawPartEnd"))
      [] value = LV_EVENT_DRAW_POST -> Ok(Ev("DrawPost"))
      [] value = LV_EVENT_DRAW_POST_BEGIN -> Ok(Ev("DrawPostBegin"))
      [] value = LV_EVENT_DRAW_POST_END -> Ok(Ev("DrawPostEnd"))
      [] OTHER -> Err

\* An encode whose DrawMain and DrawMainBegin arms are exchanged.
FromEventSwapped(event) ==
    CASE event.tag = "Pressed" -> LV_EVENT_PRESSED
      [] event.tag = "Pressing" -> LV_EVENT_PRESSING
      [] event.tag = "PressLost" -> LV_EVENT_PRESS_LOST
      [] event.tag = "ShortClicked" -> LV_EVENT_SHORT_CLICKED
      [] event.tag = "Clicked" -> LV_EVENT_CLICKED
      [] event.tag = "LongPressed" -> LV_EVENT_LONG_PRESSED
      [] event.tag = "LongPressedRepeat" -> LV_EVENT_LONG_PRESSED_REPEAT
      [] event.tag = "Released" -> LV_EVENT_RELEASED
      [] event.tag = "ValueChanged" -> LV_EVENT_VALUE_CHANGED
      [] event.tag = "DrawMain" -> LV_EVENT_DRAW_MAIN_BEGIN
      [] event.tag = "DrawMainBegin" -> LV_EVENT_DRAW_MAIN
      [] event.tag = "DrawMainEnd" -> LV_EVENT_DRAW_MAIN_END
      [] event.tag = "DrawPartBegin" -> LV_EVENT_DRAW_PART_BEGIN
      [] event.tag = "DrawPartEnd" -> LV_EVENT_DRAW_PART_END
      [] event.tag = "DrawPost" -> LV_EVENT_DRAW_POST
      [] event.tag = "DrawPostBegin" -> LV_EVENT_DRAW_POST_BEGIN
      [] event.tag = "DrawPostEnd" -> LV_EVENT_DRAW_POST_END
      [] OTHER -> LV_EVENT_CLICKED

\* impl From<Event<S>> for lv_event_code_t: the match of from, with its
\* fallback arm `_ => LV_EVENT_CLICKED` for Focused, Pointer(_) and Special(_).
\* The closing cast is u32 to u32 and changes nothing.
from_event(event) ==
    CASE event.tag = "Pressed" -> LV_EVENT_PRESSED
      [] event.tag = "Pressing" -> LV_EVENT_PRESSING
      [] event.tag = "PressLost" -> LV_EVENT_PRESS_LOST
      [] event.tag = "ShortClicked" -> LV_EVENT_SHORT_CLICKED
      [] event.tag = "Clicked" -> LV_EVENT_CLICKED
      [] event.tag = "LongPressed" -> LV_EVENT_LONG_PRESSED
      [] event.tag = "LongPressedRepeat" -> LV_EVENT_LONG_PRESSED_REPEAT
      [] event.tag = "Released" -> LV_EVENT_RELEASED
      [] event.tag = "ValueChanged" -> LV_EVENT_VALUE_CHANGED
      [] event.tag = "DrawMain" -> LV_EVENT_DRAW_MAIN
      [] event.tag = "DrawMainBegin" -> LV_EVENT_DRAW_MAIN_BEGIN
      [] event.tag = "DrawMainEnd" -> LV_EVENT_DRAW_MAIN_END
      [] event.tag = "DrawPartBegin" -> LV_EVENT_DRAW_PART_BEGIN
      [] event.tag = "DrawPartEnd" -> LV_EVENT_DRAW_PART_END
      [] event.tag = "DrawPost" -> LV_EVENT_DRAW_POST
      [] event.tag = "DrawPostBegin" -> LV_EVENT_DRAW_POST_BEGIN
      [] event.tag = "DrawPostEnd" -> LV_EVENT_DRAW_POST_END
      [] OTHER -> LV_EVENT_CLICKED

(***************************************************************************)
(* LvError and the display subsystem's DisplayError, and the two conversions.*)
(***************************************************************************)
LvError == {"InvalidReference", "Uninitialized", "LvOOMemory", "AlreadyInUse"}

DisplayError == {"NotAvailable", "FailedToRegister", "NotRegistered"}

\* impl From<DisplayError> for LvError
LvError_from(err) ==
    CASE err = "NotAvailable" -> "Uninitialized"
      [] err = "FailedToRegister" -> "InvalidReference"
      [] err = "NotRegistered" -> "Uninitialized"

\* A return trip that sends AlreadyInUse to NotRegistered.
DisplayErrorFromInUse(err) ==
    CASE err = "InvalidReference" -> "FailedToRegister"
      [] err = "Uninitialized" -> "NotAvailable"
      [] err = "LvOOMemory" -> "FailedToRegister"
      [] err = "AlreadyInUse" -> "NotRegistered"

\* impl From<LvError> for DisplayError
DisplayError_from(err) ==
    CASE err = "InvalidReference" -> "FailedToRegister"
      [] err = "Uninitialized" -> "NotAvailable"
      [] err = "LvOOMemory" -> "FailedToRegister"
      [] err = "AlreadyInUse" -> "FailedToRegister"

(***************************************************************************)
(* Color, a transparent wrapper of lv_color_t.  lv_color_t is the struct of*)
(* channel bit fields of the build's LV_COLOR_DEPTH: 8/8/8 bits and an alpha*)
(* of 0xff at depth 32, 5/6/5 bits (no alpha) at depth 16.  LV_COLOR_MAKE and*)
(* LV_COLOR_GET_R/G/B are the native helpers _LV_COLOR_MAKE, _LV_COLOR_GET_*.*)
(***************************************************************************)
ColorDepths == {16, 32}

\* The (r, g, b) the model constructs colors from: one channel takes every
\* u8 value while the other two take sample values.
ChannelSamples == {(k * 37) % 256 : k \in 0..MaxSample} \cup {51, 206, 255}

ColorInputs ==
    ((0..255) \X ChannelSamples \X ChannelSamples)
    \cup (ChannelSamples \X (0..255) \X ChannelSamples)
    \cup (ChannelSamples \X ChannelSamples \X (0..255))

LV_COLOR_MAKE(depth, r8, g8, b8) ==
    IF depth = 32
    THEN [red |-> r8, green |-> g8, blue |-> b8, alpha |-> 255]
    ELSE [red |-> r8 \div 8, green |-> g8 \div 4, blue |-> b8 \div 8, alpha |-> 0]

LV_COLOR_GET_R(depth, c) == c.red

LV_COLOR_GET_G(depth, c) == c.green

LV_COLOR_GET_B(depth, c) == c.blue

\* Color::from_rgb
Color_from_rgb(depth, rgb) == [raw |-> LV_COLOR_MAKE(depth, rgb[1], rgb[2], rgb[3])]

\* An accessor that reads the green channel.
ColorRReadsGreen(depth, self) == LV_COLOR_GET_G(depth, self.raw) % 256

\* Color::r, Color::g, Color::b: the native getter, then `as u8`.
Color_r(depth, self) == LV_COLOR_GET_R(depth, self.raw) % 256

Color_g(depth, self) == LV_COLOR_GET_G(depth, self.raw) % 256

Color_b(depth, self) == LV_COLOR_GET_B(depth, self.raw) % 256

(***************************************************************************)
(* The enum-to-integer conversions and the native constants they name      *)
(* (lv_align_t, lv_text_align_t, lv_anim_enable_t, lv_label_long_mode_t and*)
(* the LV_OBJ_FLAG_ bits of LVGL v8).                                      *)
(***************************************************************************)
LV_ALIGN_CENTER == 9

LV_ALIGN_TOP_LEFT == 1

LV_ALIGN_TOP_MID == 2

LV_ALIGN_TOP_RIGHT == 3

LV_ALIGN_BOTTOM_LEFT == 4

LV_ALIGN_BOTTOM_MID == 5

LV_ALIGN_BOTTOM_RIGHT == 6

LV_ALIGN_LEFT_MID == 7

LV_ALIGN_RIGHT_MID == 8

LV_ALIGN_OUT_TOP_LEFT == 10

LV_ALIGN_OUT_TOP_MID == 11

LV_ALIGN_OUT_TOP_RIGHT == 12

LV_ALIGN_OUT_BOTTOM_LEFT == 13

LV_ALIGN_OUT_BOTTOM_MID == 14

LV_ALIGN_OUT_BOTTOM_RIGHT == 15

LV_ALIGN_OUT_LEFT_TOP == 16

LV_ALIGN_OUT_LEFT_MID == 17

LV_ALIGN_OUT_LEFT_BOTTOM == 18

LV_ALIGN_OUT_RIGHT_TOP == 19

LV_ALIGN_OUT_RIGHT_MID == 20

LV_ALIGN_OUT_RIGHT_BOTTOM == 21

LV_TEXT_ALIGN_AUTO == 0

LV_TEXT_ALIGN_CENTER == 2

LV_TEXT_ALIGN_LEFT == 1

LV_TEXT_ALIGN_RIGHT == 3

LV_ANIM_OFF == 0

LV_ANIM_ON == 1

LV_LABEL_LONG_CLIP == 4

LV_LABEL_LONG_DOT == 1

LV_LABEL_LONG_SCROLL == 2

LV_LABEL_LONG_SCROLL_CIRCULAR == 3

LV_LABEL_LONG_WRAP == 0

LV_OBJ_FLAG_HIDDEN == 1

LV_OBJ_FLAG_CLICKABLE == 2

LV_OBJ_FLAG_CLICK_FOCUSABLE == 4

LV_OBJ_FLAG_CHECKABLE == 8

LV_OBJ_FLAG_SCROLLABLE == 16

LV_OBJ_FLAG_SCROLL_ELASTIC == 32

LV_OBJ_FLAG_SCROLL_MOMENTUM == 64

LV_OBJ_FLAG_SCROLL_ONE == 128

LV_OBJ_FLAG_SCROLL_CHAIN_HOR == 256

LV_OBJ_FLAG_SCROLL_CHAIN_VER == 512

LV_OBJ_FLAG_SCROLL_CHAIN == 768

LV_OBJ_FLAG_SCROLL_ON_FOCUS == 1024

LV_OBJ_FLAG_SCROLL_WITH_ARROW == 2048

LV_OBJ_FLAG_SNAPPABLE == 4096

LV_OBJ_FLAG_PRESS_LOCK == 8192

LV_OBJ_FLAG_EVENT_BUBBLE == 16384

LV_OBJ_FLAG_GESTURE_BUBBLE == 32768

LV_OBJ_FLAG_ADV_HITTEST == 65536

LV_OBJ_FLAG_IGNORE_LAYOUT == 131072

LV_OBJ_FLAG_FLOATING == 262144

LV_OBJ_FLAG_OVERFLOW_VISIBLE == 524288

LV_OBJ_FLAG_LAYOUT_1 == 8388608

LV_OBJ_FLAG_LAYOUT_2 == 16777216

LV_OBJ_FLAG_WIDGET_1 == 33554432

LV_OBJ_FLAG_WIDGET_2 == 67108864

LV_OBJ_FLAG_USER_1 == 134217728

LV_OBJ_FLAG_USER_2 == 268435456

LV_OBJ_FLAG_USER_3 == 536870912

LV_OBJ_FLAG_USER_4 == 1073741824

Align == {"Center", "TopLeft", "TopMid", "TopRight", "BottomLeft", "BottomMid", "BottomRight",
          "LeftMid", "RightMid", "OutTopLeft", "OutTopMid", "OutTopRight", "OutBottomLeft", "OutBottomMid",
          "OutBottomRight", "OutLeftTop", "OutLeftMid", "OutLeftBottom", "OutRightTop", "OutRightMid", "OutRightBottom"}

TextAlign == {"Auto", "Center", "Left", "Right"}

AnimationState == {"ON", "OFF"}

LabelLongMode == {"Clip", "Dot", "Scroll", "ScrollCircular", "Wrap"}

ObjFlag == {"Hidden", "Clickable", "ClickFocusable", "Checkable", "Scrollable", "ScrollElastic",
            "ScrollMomentum", "ScrollOne", "ScrollChainHor", "ScrollChainVer", "ScrollChain", "ScrollOnFocus",
            "ScrollWithArrow", "Snappable", "PressLock", "EventBubble", "GestureBubble", "AdvHitTest",
            "IgnoreLayout", "Floating", "OverflowVisible", "Layout1", "Layout2", "Widget1",
            "Widget2", "User1", "User2", "User3", "User4"}

\* The casts `as u8` and `as lv_obj_flag_t` (u32): the value modulo 2^8, 2^32.
AsU8(n) == n % 256

\* 2^32 is beyond the integers of the checker: the quotient by 2^16 twice.
AsU32(n) == n - (((n \div 65536) \div 65536) * 65536) * 65536

\* The match of From<Align> for u8.
AlignNative(value) ==
    CASE value = "Center" -> LV_ALIGN_CENTER
      [] value = "TopLeft" -> LV_ALIGN_TOP_LEFT
      [] value = "TopMid" -> LV_ALIGN_TOP_MID
      [] value = "TopRight" -> LV_ALIGN_TOP_RIGHT
      [] value = "BottomLeft" -> LV_ALIGN_BOTTOM_LEFT
      [] value = "BottomMid" -> LV_ALIGN_BOTTOM_MID
      [] value = "BottomRight" -> LV_ALIGN_BOTTOM_RIGHT
      [] value = "LeftMid" -> LV_ALIGN_LEFT_MID
      [] value = "RightMid" -> LV_ALIGN_RIGHT_MID
      [] value = "OutTopLeft" -> LV_ALIGN_OUT_TOP_LEFT
      [] value = "OutTopMid" -> LV_ALIGN_OUT_TOP_MID
      [] value = "OutTopRight" -> LV_ALIGN_OUT_TOP_RIGHT
      [] value = "OutBottomLeft" -> LV_ALIGN_OUT_BOTTOM_LEFT
      [] value = "OutBottomMid" -> LV_ALIGN_OUT_BOTTOM_MID
      [] value = "OutBottomRight" -> LV_ALIGN_OUT_BOTTOM_RIGHT
      [] value = "OutLeftTop" -> LV_ALIGN_OUT_LEFT_TOP
      [] value = "OutLeftMid" -> LV_ALIGN_OUT_LEFT_MID
      [] value = "OutLeftBottom" -> LV_ALIGN_OUT_LEFT_BOTTOM
      [] value = "OutRightTop" -> LV_ALIGN_OUT_RIGHT_TOP
      [] value = "OutRightMid" -> LV_ALIGN_OUT_RIGHT_MID
      [] value = "OutRightBottom" -> LV_ALIGN_OUT_RIGHT_BOTTOM

\* A conversion with the numbering of LVGL v7, whose LV_ALIGN_CENTER is 0.
U8FromAlignV7(value) == IF value = "Center" THEN 0 ELSE AsU8(AlignNative(value))

\* impl From<Align> for u8
u8_from_Align(value) == AsU8(AlignNative(value))

\* impl From<TextAlign> for u8
u8_from_TextAlign(value) ==
    LET native ==
          CASE value = "Auto" -> LV_TEXT_ALIGN_AUTO
            [] value = "Center" -> LV_TEXT_ALIGN_CENTER
            [] value = "Left" -> LV_TEXT_ALIGN_LEFT
            [] value = "Right" -> LV_TEXT_ALIGN_RIGHT
    IN AsU8(native)

\* impl From<AnimationState> for lv_anim_enable_t
lv_anim_enable_t_from(anim) ==
    CASE anim = "ON" -> LV_ANIM_ON
      [] anim = "OFF" -> LV_ANIM_OFF

\* The discriminants of #[repr(u32)] enum LabelLongMode.
LabelLongModeAsU32(value) ==
    CASE value = "Clip" -> LV_LABEL_LONG_CLIP
      [] value = "Dot" -> LV_LABEL_LONG_DOT
      [] value = "Scroll" -> LV_LABEL_LONG_SCROLL
      [] value = "ScrollCircular" -> LV_LABEL_LONG_SCROLL_CIRCULAR
      [] value = "Wrap" -> LV_LABEL_LONG_WRAP

\* impl From<LabelLongMode> for u8: try_into().unwrap_unchecked() is the value
\* when it fits a u8 and undefined behaviour (any u8) when it does not.
u8_from_LabelLongMode(value) ==
    LET n == LabelLongModeAsU32(value)
    IN IF n < 256 THEN {n} ELSE 0..255

\* impl From<ObjFlag> for lv_obj_flag_t
lv_obj_flag_t_from(obj_flag) ==
    LET native_obj_flag ==
          CASE obj_flag = "Hidden" -> LV_OBJ_FLAG_HIDDEN
            [] obj_flag = "Clickable" -> LV_OBJ_FLAG_CLICKABLE
            [] obj_flag = "ClickFocusable" -> LV_OBJ_FLAG_CLICK_FOCUSABLE
            [] obj_flag = "Checkable" -> LV_OBJ_FLAG_CHECKABLE
            [] obj_flag = "Scrollable" -> LV_OBJ_FLAG_SCROLLABLE
            [] obj_flag = "ScrollElastic" -> LV_OBJ_FLAG_SCROLL_ELASTIC
            [] obj_flag = "ScrollMomentum" -> LV_OBJ_FLAG_SCROLL_MOMENTUM
            [] obj_flag = "ScrollOne" -> LV_OBJ_FLAG_SCROLL_ONE
            [] obj_flag = "ScrollChainHor" -> LV_OBJ_FLAG_SCROLL_CHAIN_HOR
            [] obj_flag = "ScrollChainVer" -> LV_OBJ_FLAG_SCROLL_CHAIN_VER
            [] obj_flag = "ScrollChain" -> LV_OBJ_FLAG_SCROLL_CHAIN
            [] obj_flag = "ScrollOnFocus" -> LV_OBJ_FLAG_SCROLL_ON_FOCUS
            [] obj_flag = "ScrollWithArrow" -> LV_OBJ_FLAG_SCROLL_WITH_ARROW
            [] obj_flag = "Snappable" -> LV_OBJ_FLAG_SNAPPABLE
            [] obj_flag = "PressLock" -> LV_OBJ_FLAG_PRESS_LOCK
            [] obj_flag = "EventBubble" -> LV_OBJ_FLAG_EVENT_BUBBLE
            [] obj_flag = "GestureBubble" -> LV_OBJ_FLAG_GESTURE_BUBBLE
            [] obj_flag = "AdvHitTest" -> LV_OBJ_FLAG_ADV_HITTEST
            [] obj_flag = "IgnoreLayout" -> LV_OBJ_FLAG_IGNORE_LAYOUT
            [] obj_flag = "Floating" -> LV_OBJ_FLAG_FLOATING
            [] obj_flag = "OverflowVisible" -> LV_OBJ_FLAG_OVERFLOW_VISIBLE
            [] obj_flag = "Layout1" -> LV_OBJ_FLAG_LAYOUT_1
            [] obj_flag = "Layout2" -> LV_OBJ_FLAG_LAYOUT_2
            [] obj_flag = "Widget1" -> LV_OBJ_FLAG_WIDGET_1
            [] obj_flag = "Widget2" -> LV_OBJ_FLAG_WIDGET_2
            [] obj_flag = "User1" -> LV_OBJ_FLAG_USER_1
            [] obj_flag = "User2" -> LV_OBJ_FLAG_USER_2
            [] obj_flag = "User3" -> LV_OBJ_FLAG_USER_3
            [] obj_flag = "User4" -> LV_OBJ_FLAG_USER_4
    IN AsU32(native_obj_flag)

(***************************************************************************)
(* The trampoline.  Objects are 1..NObj and 0 is the null pointer; the     *)
(* boxed closures are 1..NClosure, each of one closure type.  F is the     *)
(* closure type the trampoline is instantiated with.                       *)
(***************************************************************************)
Objs == 1..NObj

Closures == 1..NClosure

ClosureTypes == {"F", "G"}

\* The type of the closure boxed at address c.
ClosureType(c) == IF c % 2 = 1 THEN "F" ELSE "G"

\* The event codes the native runtime dispatches in the model: decodable ones,
\* and the focus and key codes, which do not decode.
DispatchCodes == {LV_EVENT_PRESSED, LV_EVENT_CLICKED, LV_EVENT_KEY, LV_EVENT_FOCUSED}

\* What one run of event_callback did: how it ended, whether T::from_raw was
\* called and the user_data slot read, and the call user_closure(object, code):
\* how many times a closure was called, which one, and with what arguments.
Run(outcome, from_raw, read, calls, callee, widget, ev) ==
    [outcome |-> outcome, from_raw |-> from_raw, read |-> read, calls |-> calls,
     callee |-> callee, widget |-> widget, ev |-> ev]

\* A null test that lets every pointer through.
NonNullAlways(ptr) == TRUE

\* NonNull::new(obj) is Some
NonNull_new(ptr) == ptr # 0

\* T::from_raw(obj_ptr) is Ok: the Widget's validation of the pointer.
T_from_raw(obj_ptr, vld) == obj_ptr \in vld

\* The closure behind `&mut *((*obj).user_data as *mut F)` is a live boxed F.
IsLiveF(F, ptr, hp) == ptr \in Closures /\ hp[ptr] = "live" /\ ClosureType(ptr) = F

\* A trampoline that drops the event when T::from_raw fails, instead of
\* unwrapping the failure.
EventCallbackDropsInvalid(F, code, obj, ud, hp, vld) ==
    LET decoded == try_from(code)
    IN  IF ~decoded.ok THEN {Run("dropped", FALSE, FALSE, 0, 0, 0, Ev("-"))}
        ELSE IF ~NonNull_new(obj) THEN {Run("dropped", FALSE, FALSE, 0, 0, 0, Ev("-"))}
        ELSE IF ~T_from_raw(obj, vld) THEN {Run("dropped", TRUE, FALSE, 0, 0, 0, Ev("-"))}
        ELSE IF obj \in Objs /\ IsLiveF(F, ud[obj], hp)
             THEN {Run("invoked", TRUE, TRUE, 1, ud[obj], obj, decoded.ev)}
             ELSE {Run("ub_exec", TRUE, TRUE, 0, 0, 0, Ev("-")),
                   Run("ub_fault", TRUE, TRUE, 0, 0, 0, Ev("-"))}

\* A trampoline that hands the user closure the wrong event for a press
\* (Clicked instead of Pressed).
EventCallbackWrongEvent(F, code, obj, ud, hp, vld) ==
    LET decoded == try_from(code)
    IN  IF ~decoded.ok THEN {Run("dropped", FALSE, FALSE, 0, 0, 0, Ev("-"))}
        ELSE IF ~NonNull_new(obj) THEN {Run("dropped", FALSE, FALSE, 0, 0, 0, Ev("-"))}
        ELSE IF ~T_from_raw(obj, vld) THEN {Run("panic", TRUE, FALSE, 0, 0, 0, Ev("-"))}
        ELSE IF obj \in Objs /\ IsLiveF(F, ud[obj], hp)
             THEN {Run("invoked", TRUE, TRUE, 1, ud[obj], obj,
                       IF decoded.ev = Ev("Pressed") THEN Ev("Clicked") ELSE decoded.ev)}
             ELSE {Run("ub_exec", TRUE, TRUE, 0, 0, 0, Ev("-")),
                   Run("ub_fault", TRUE, TRUE, 0, 0, 0, Ev("-"))}

\* event_callback::<T, F>(event) with (*event).code = code, (*event).target = obj,
\* in a state with the user_data slots ud, the closure heap hp and the objects
\* vld that T::from_raw accepts: the set of its possible runs.
\*   - the code does not decode, or obj is null: nothing happens;
\*   - T::from_raw(obj_ptr).unwrap() panics when from_raw fails;
\*   - (*obj).user_data is read and cast to *mut F with no check: calling
\*     through it is defined only when it points to a live F.  Otherwise the
\*     behaviour is undefined: F's body runs on a null or foreign environment
\*     (ub_exec) or the process faults (ub_fault).  A null obj that reached the
\*     read would be a null dereference, undefined as well.
event_callback(F, code, obj, ud, hp, vld) ==
    LET decoded == try_from(code)
    IN  IF ~decoded.ok THEN {Run("dropped", FALSE, FALSE, 0, 0, 0, Ev("-"))}
        ELSE IF ~NonNull_new(obj) THEN {Run("dropped", FALSE, FALSE, 0, 0, 0, Ev("-"))}
        ELSE IF ~T_from_raw(obj, vld) THEN {Run("panic", TRUE, FALSE, 0, 0, 0, Ev("-"))}
        ELSE IF obj \in Objs /\ IsLiveF(F, ud[obj], hp)
             THEN {Run("invoked", TRUE, TRUE, 1, ud[obj], obj, decoded.ev)}
             ELSE {Run("ub_exec", TRUE, TRUE, 0, 0, 0, Ev("-")),
                   Run("ub_fault", TRUE, TRUE, 0, 0, 0, Ev("-"))}

\* The dispatch is well formed: the code decodes, the target is non-null and
\* accepted by T::from_raw, and its slot holds a live closure of type F.
WellFormed(F, code, obj) ==
    /\ try_from(code).ok
    /\ obj \in Objs
    /\ obj \in valid
    /\ IsLiveF(F, user_data[obj], heap)

NoDispatch ==
    [kind |-> "none", F |-> "-", code |-> 0, target |-> 0, slot |-> 0,
     wf |-> FALSE, cleared |-> FALSE, old |-> {},
     run |-> Run("none", FALSE, FALSE, 0, 0, 0, Ev("-"))]

TInit ==
    /\ user_data = [o \in Objs |-> 0]
    /\ heap = [c \in Closures |-> "unalloc"]
    /\ valid \in SUBSET Objs
    /\ prev = [o \in Objs |-> {}]
    /\ last = NoDispatch
    /\ invoked = [c \in Closures |-> 0]
    /\ qualified = [c \in Closures |-> 0]
    /\ ndisp = 0
    /\ halted = FALSE

\* The native runtime hands event_callback::<T, F> an event record.
Dispatch(F, code, obj) ==
    /\ ~halted
    /\ ndisp < MaxDispatch
    /\ \E r \in event_callback(F, code, obj, user_data, heap, valid) :
         /\ last' = [kind |-> "dispatch", F |-> F, code |-> code, target |-> obj,
                     slot |-> IF obj \in Objs THEN user_data[obj] ELSE 0,
                     wf |-> WellFormed(F, code, obj),
                     cleared |-> obj \in Objs /\ user_data[obj] = 0 /\ prev[obj] # {},
                     old |-> IF obj \in Objs THEN prev[obj] ELSE {},
                     run |-> r]
         /\ invoked' = IF r.calls > 0
                       THEN [invoked EXCEPT ![r.callee] = @ + r.calls]
                       ELSE invoked
         /\ halted' = (r.outcome \in {"panic", "ub_fault"})
    /\ qualified' = IF WellFormed(F, code, obj)
                    THEN [qualified EXCEPT ![user_data[obj]] = @ + 1]
                    ELSE qualified
    /\ ndisp' = ndisp + 1
    /\ UNCHANGED <<user_data, heap, valid, prev, cvars>>

\* Box::new: the address of the next allocation (addresses are not reused).
NextBox(hp) == Cardinality({c \in Closures : hp[c] # "unalloc"}) + 1

\* Registration: a closure is boxed and its address stored in the empty slot.
Register(o) ==
    /\ ~halted
    /\ user_data[o] = 0
    /\ NextBox(heap) \in Closures
    /\ heap' = [heap EXCEPT ![NextBox(heap)] = "live"]
    /\ user_data' = [user_data EXCEPT ![o] = NextBox(heap)]
    /\ UNCHANGED <<valid, prev, last, invoked, qualified, ndisp, halted, cvars>>

\* Replacement: the stored closure is freed and a new one takes the slot.
Replace(o) ==
    /\ ~halted
    /\ user_data[o] # 0
    /\ NextBox(heap) \in Closures
    /\ heap' = [heap EXCEPT ![NextBox(heap)] = "live", ![user_data[o]] = "freed"]
    /\ user_data' = [user_data EXCEPT ![o] = NextBox(heap)]
    /\ prev' = [prev EXCEPT ![o] = @ \cup {user_data[o]}]
    /\ UNCHANGED <<valid, last, invoked, qualified, ndisp, halted, cvars>>

\* Clearing: the stored closure is freed and the slot set to null.
Clear(o) ==
    /\ ~halted
    /\ user_data[o] # 0
    /\ heap' = [heap EXCEPT ![user_data[o]] = "freed"]
    /\ user_data' = [user_data EXCEPT ![o] = 0]
    /\ prev' = [prev EXCEPT ![o] = @ \cup {user_data[o]}]
    /\ UNCHANGED <<valid, last, invoked, qualified, ndisp, halted, cvars>>

(***************************************************************************)
(* The pure conversions, applied one at a time: a call, then its return.   *)
(***************************************************************************)
CInit ==
    /\ op = "none"
    /\ arg = 0
    /\ res = 0

DoTryFrom(value) ==
    /\ op = "none"
    /\ op' = "try_from" /\ arg' = value /\ res' = try_from(value)
    /\ UNCHANGED tvars

DoFromEvent(event) ==
    /\ op = "none"
    /\ op' = "from_event" /\ arg' = event /\ res' = from_event(event)
    /\ UNCHANGED tvars

DoLvErrorFrom(err) ==
    /\ op = "none"
    /\ op' = "LvError_from" /\ arg' = err /\ res' = LvError_from(err)
    /\ UNCHANGED tvars

DoDisplayErrorFrom(err) ==
    /\ op = "none"
    /\ op' = "DisplayError_from" /\ arg' = err /\ res' = DisplayError_from(err)
    /\ UNCHANGED tvars

\* Color::from_rgb((r, g, b)) at a color depth, then r(), g(), b().
DoColor(depth, r, g, b) ==
    LET color == Color_from_rgb(depth, <<r, g, b>>)
    IN  /\ op = "none"
        /\ op' = "color"
        /\ arg' = <<depth, r, g, b>>
        /\ res' = <<Color_r(depth, color), Color_g(depth, color), Color_b(depth, color)>>
        /\ UNCHANGED tvars

DoAlign(value) ==
    /\ op = "none"
    /\ op' = "Align" /\ arg' = value /\ res' = u8_from_Align(value)
    /\ UNCHANGED tvars

DoTextAlign(value) ==
    /\ op = "none"
    /\ op' = "TextAlign" /\ arg' = value /\ res' = u8_from_TextAlign(value)
    /\ UNCHANGED tvars

DoAnimationState(anim) ==
    /\ op = "none"
    /\ op' = "AnimationState" /\ arg' = anim /\ res' = lv_anim_enable_t_from(anim)
    /\ UNCHANGED tvars

DoLabelLongMode(value) ==
    /\ op = "none"
    /\ op' = "LabelLongMode" /\ arg' = value /\ res' \in u8_from_LabelLongMode(value)
    /\ UNCHANGED tvars

DoObjFlag(obj_flag) ==
    /\ op = "none"
    /\ op' = "ObjFlag" /\ arg' = obj_flag /\ res' = lv_obj_flag_t_from(obj_flag)
    /\ UNCHANGED tvars

\* The caller takes the result: the next conversion can be applied.
ConvReturn ==
    /\ op # "none"
    /\ op' = "none" /\ arg' = 0 /\ res' = 0
    /\ UNCHANGED tvars

(***************************************************************************)
(* The specifications.                                                     *)
(***************************************************************************)
Init == TInit /\ CInit

Next ==
    \/ \E F \in ClosureTypes, code \in DispatchCodes, obj \in 0..NObj : Dispatch(F, code, obj)
    \/ \E o \in Objs : Register(o)
    \/ \E o \in Objs : Replace(o)
    \/ \E o \in Objs : Clear(o)

Spec == Init /\ [][Next]_vars

\* No conversion is in progress.
Idle == op = "none"

\* A conversion is called when none is in progress (the guard is tested
\* before the inputs are drawn), and then returns.
ConvNext ==
    \/ Idle /\ \E value \in Codes : DoTryFrom(value)
    \/ Idle /\ \E event \in Event : DoFromEvent(event)
    \/ Idle /\ \E err \in DisplayError : DoLvErrorFrom(err)
    \/ Idle /\ \E err \in LvError : DoDisplayErrorFrom(err)
    \/ Idle /\ \E depth \in ColorDepths, rgb \in ColorInputs : DoColor(depth, rgb[1], rgb[2], rgb[3])
    \/ Idle /\ \E value \in Align : DoAlign(value)
    \/ Idle /\ \E value \in TextAlign : DoTextAlign(value)
    \/ Idle /\ \E anim \in AnimationState : DoAnimationState(anim)
    \/ Idle /\ \E value \in LabelLongMode : DoLabelLongMode(value)
    \/ Idle /\ \E obj_flag \in ObjFlag : DoObjFlag(obj_flag)
    \/ ConvReturn

\* The conversions do not touch the trampoline's state: it is held at one
\* initial state.
ConvInit == Init /\ valid = Objs

ConvSpec == ConvInit /\ [][ConvNext]_vars

(***************************************************************************)
(* Properties of the trampoline (checked under Spec).                      *)
(***************************************************************************)

\* C1: every well-formed dispatch (the code decodes, the target is non-null,
\* T::from_raw succeeds, the target's slot holds a live closure of type F)
\* invokes that closure exactly once, with the widget rebuilt from the target
\* pointer and the Event the code decodes to; so each closure has been invoked
\* exactly as often as a well-formed dispatch found it in the target's slot.
C1_InvokedExactlyOnce ==
    /\ (last.kind = "dispatch" /\ last.wf) =>
          /\ last.run.outcome = "invoked"
          /\ last.run.calls = 1
          /\ last.run.callee = last.slot
          /\ last.run.widget = last.target
          /\ Ok(last.run.ev) = try_from(last.code)
    /\ \A c \in Closures : invoked[c] = qualified[c]

\* A closure has been invoked by two well-formed dispatches, the last of a
\* press event.
C1_Witness ==
    /\ last.kind = "dispatch" /\ last.wf
    /\ last.code = LV_EVENT_PRESSED
    /\ last.run.ev = Ev("Pressed")
    /\ invoked[last.slot] = 2

\* C2: a dispatch whose code does not decode or whose target is null is a
\* silent drop: no closure is invoked, T::from_raw is not called, the
\* user_data slot is not read, and the dispatch returns normally.
C2_SilentDrop ==
    (last.kind = "dispatch" /\ (~try_from(last.code).ok \/ last.target = 0)) =>
        /\ last.run.outcome = "dropped"
        /\ last.run.calls = 0
        /\ ~last.run.from_raw
        /\ ~last.run.read
        /\ ~halted

\* A decodable event for the null target was dropped while a live closure is
\* registered on an object.
C2_Witness ==
    /\ last.kind = "dispatch"
    /\ last.target = 0
    /\ try_from(last.code).ok
    /\ last.run.outcome = "dropped"
    /\ \E o \in Objs : user_data[o] # 0

\* C3: after a slot's callback is replaced or cleared no dispatch invokes or
\* dereferences an old closure: a dispatch calls only the closure its target's
\* slot holds at that moment, and a dispatch on a cleared slot invokes nothing.
C3_NoStaleClosure ==
    last.kind = "dispatch" =>
        /\ last.run.calls > 0 => (last.run.callee = last.slot /\ last.run.callee \notin last.old)
        /\ last.cleared => last.run.outcome \in {"dropped", "panic"}

\* C11: when the code decodes and the target is non-null but T::from_raw
\* fails, event_callback panics (the dispatch is aborted, not dropped) after
\* calling from_raw and before reading the user_data slot, and no closure is
\* invoked.
C11_FromRawFailurePanics ==
    (/\ last.kind = "dispatch"
     /\ try_from(last.code).ok
     /\ last.target \in Objs
     /\ last.target \notin valid) =>
        /\ last.run.outcome = "panic"
        /\ last.run.from_raw
        /\ ~last.run.read
        /\ last.run.calls = 0
        /\ halted
        /\ \A c \in Closures : invoked[c] = qualified[c]

\* A decodable event for an object that T::from_raw rejects, whose slot holds
\* a live closure of the trampoline's type, ended in a panic.
C11_Witness ==
    /\ last.kind = "dispatch"
    /\ try_from(last.code).ok
    /\ last.target \in Objs
    /\ last.target \notin valid
    /\ IsLiveF(last.F, user_data[last.target], heap)
    /\ last.run.outcome = "panic"

(***************************************************************************)
(* Properties of the conversions (checked under ConvSpec).                 *)
(***************************************************************************)

\* The codes the match of try_from lists.
MatchedCodes ==
    {LV_EVENT_PRESSED, LV_EVENT_PRESSING, LV_EVENT_PRESS_LOST, LV_EVENT_SHORT_CLICKED,
     LV_EVENT_CLICKED, LV_EVENT_LONG_PRESSED, LV_EVENT_LONG_PRESSED_REPEAT,
     LV_EVENT_RELEASED, LV_EVENT_VALUE_CHANGED, LV_EVENT_DRAW_MAIN,
     LV_EVENT_DRAW_MAIN_BEGIN, LV_EVENT_DRAW_MAIN_END, LV_EVENT_DRAW_PART_BEGIN,
     LV_EVENT_DRAW_PART_END, LV_EVENT_DRAW_POST, LV_EVENT_DRAW_POST_BEGIN,
     LV_EVENT_DRAW_POST_END}

\* C4: round trip: every native code that try_from accepts is the code that
\* From<Event<S>> gives back for the decoded event.
C4_RoundTrip ==
    (op = "try_from" /\ res.ok) => from_event(res.ev) = arg

\* The draw-main code was decoded, to DrawMain.
C4_Witness ==
    op = "try_from" /\ arg = LV_EVENT_DRAW_MAIN /\ res = Ok(Ev("DrawMain"))

\* C5: encode never substitutes the code of another variant: whenever the
\* result is the code of Clicked, the event is Clicked.
C5_NoSubstitution ==
    (op = "from_event" /\ res = LV_EVENT_CLICKED) => arg.tag = "Clicked"

\* C6: every code that the match of try_from does not list (out-of-range
\* values, the gesture, key, scroll and delete codes included) decodes to
\* Err(()); decode always returns.
C6_UnmatchedIsErr ==
    op = "try_from" =>
        /\ arg \notin MatchedCodes => res = Err
        /\ res = Err \/ (res.ok /\ res.ev \in Event)

\* The gesture, key, scroll and delete codes and an out-of-range value all
\* lie in the inputs, and one of them was decoded, to Err(()).
C6_Witness ==
    /\ {LV_EVENT_GESTURE, LV_EVENT_KEY, LV_EVENT_SCROLL, LV_EVENT_DELETE, CodeMax} \subseteq Codes
    /\ op = "try_from"
    /\ arg \in {LV_EVENT_GESTURE, LV_EVENT_KEY, LV_EVENT_SCROLL, LV_EVENT_DELETE, CodeMax}
    /\ res = Err

\* C7: decode returns Ok for every code of the draw, press, click, focus and
\* value-changed categories, and the native focus code decodes to Focused.
C7_FocusDecodes ==
    op = "try_from" =>
        /\ arg \in MatchedCodes \cup {LV_EVENT_FOCUSED} => res.ok
        /\ arg = LV_EVENT_FOCUSED => res = Ok(Ev("Focused"))

\* C8: both error conversions are total, and on the return trip
\* InvalidReference, LvOOMemory and AlreadyInUse map to FailedToRegister and
\* Uninitialized maps to NotAvailable.
C8_ErrorTables ==
    /\ op = "LvError_from" => (arg \in DisplayError /\ res \in LvError)
    /\ op = "DisplayError_from" =>
          /\ arg \in LvError /\ res \in DisplayError
          /\ arg \in {"InvalidReference", "LvOOMemory", "AlreadyInUse"} => res = "FailedToRegister"
          /\ arg = "Uninitialized" => res = "NotAvailable"

\* AlreadyInUse was converted, to FailedToRegister.
C8_Witness ==
    op = "DisplayError_from" /\ arg = "AlreadyInUse" /\ res = "FailedToRegister"

\* C9: the channel accessors of Color::from_rgb((r,g,b)) return (r,g,b) at
\* depth 32 and (r>>3, g>>2, b>>3) at depth 16.
C9_ColorQuantization ==
    op = "color" =>
        /\ arg[1] = 32 => res = <<arg[2], arg[3], arg[4]>>
        /\ arg[1] = 16 => res = <<arg[2] \div 8, arg[3] \div 4, arg[4] \div 8>>

\* (206,51,255) at depth 16 read back as (25,12,31).
C9_Witness ==
    op = "color" /\ arg = <<16, 206, 51, 255>> /\ res = <<25, 12, 31>>

\* The native constant each variant names.
AlignConst ==
    [Center |-> LV_ALIGN_CENTER, TopLeft |-> LV_ALIGN_TOP_LEFT, TopMid |-> LV_ALIGN_TOP_MID,
     TopRight |-> LV_ALIGN_TOP_RIGHT, BottomLeft |-> LV_ALIGN_BOTTOM_LEFT,
     BottomMid |-> LV_ALIGN_BOTTOM_MID, BottomRight |-> LV_ALIGN_BOTTOM_RIGHT,
     LeftMid |-> LV_ALIGN_LEFT_MID, RightMid |-> LV_ALIGN_RIGHT_MID,
     OutTopLeft |-> LV_ALIGN_OUT_TOP_LEFT, OutTopMid |-> LV_ALIGN_OUT_TOP_MID,
     OutTopRight |-> LV_ALIGN_OUT_TOP_RIGHT, OutBottomLeft |-> LV_ALIGN_OUT_BOTTOM_LEFT,
     OutBottomMid |-> LV_ALIGN_OUT_BOTTOM_MID, OutBottomRight |-> LV_ALIGN_OUT_BOTTOM_RIGHT,
     OutLeftTop |-> LV_ALIGN_OUT_LEFT_TOP, OutLeftMid |-> LV_ALIGN_OUT_LEFT_MID,
     OutLeftBottom |-> LV_ALIGN_OUT_LEFT_BOTTOM, OutRightTop |-> LV_ALIGN_OUT_RIGHT_TOP,
     OutRightMid |-> LV_ALIGN_OUT_RIGHT_MID, OutRightBottom |-> LV_ALIGN_OUT_RIGHT_BOTTOM]

TextAlignConst ==
    [Auto |-> LV_TEXT_ALIGN_AUTO, Center |-> LV_TEXT_ALIGN_CENTER,
     Left |-> LV_TEXT_ALIGN_LEFT, Right |-> LV_TEXT_ALIGN_RIGHT]

AnimationStateConst == [ON |-> LV_ANIM_ON, OFF |-> LV_ANIM_OFF]

LabelLongModeConst ==
    [Clip |-> LV_LABEL_LONG_CLIP, Dot |-> LV_LABEL_LONG_DOT, Scroll |-> LV_LABEL_LONG_SCROLL,
     ScrollCircular |-> LV_LABEL_LONG_SCROLL_CIRCULAR, Wrap |-> LV_LABEL_LONG_WRAP]

ObjFlagConst ==
    [Hidden |-> LV_OBJ_FLAG_HIDDEN, Clickable |-> LV_OBJ_FLAG_CLICKABLE,
     ClickFocusable |-> LV_OBJ_FLAG_CLICK_FOCUSABLE, Checkable |-> LV_OBJ_FLAG_CHECKABLE,
     Scrollable |-> LV_OBJ_FLAG_SCROLLABLE, ScrollElastic |-> LV_OBJ_FLAG_SCROLL_ELASTIC,
     ScrollMomentum |-> LV_OBJ_FLAG_SCROLL_MOMENTUM, ScrollOne |-> LV_OBJ_FLAG_SCROLL_ONE,
     ScrollChainHor |-> LV_OBJ_FLAG_SCROLL_CHAIN_HOR,
     ScrollChainVer |-> LV_OBJ_FLAG_SCROLL_CHAIN_VER, ScrollChain |-> LV_OBJ_FLAG_SCROLL_CHAIN,
     ScrollOnFocus |-> LV_OBJ_FLAG_SCROLL_ON_FOCUS,
     ScrollWithArrow |-> LV_OBJ_FLAG_SCROLL_WITH_ARROW, Snappable |-> LV_OBJ_FLAG_SNAPPABLE,
     PressLock |-> LV_OBJ_FLAG_PRESS_LOCK, EventBubble |-> LV_OBJ_FLAG_EVENT_BUBBLE,
     GestureBubble |-> LV_OBJ_FLAG_GESTURE_BUBBLE, AdvHitTest |-> LV_OBJ_FLAG_ADV_HITTEST,
     IgnoreLayout |-> LV_OBJ_FLAG_IGNORE_LAYOUT, Floating |-> LV_OBJ_FLAG_FLOATING,
     OverflowVisible |-> LV_OBJ_FLAG_OVERFLOW_VISIBLE, Layout1 |-> LV_OBJ_FLAG_LAYOUT_1,
     Layout2 |-> LV_OBJ_FLAG_LAYOUT_2, Widget1 |-> LV_OBJ_FLAG_WIDGET_1,
     Widget2 |-> LV_OBJ_FLAG_WIDGET_2, User1 |-> LV_OBJ_FLAG_USER_1,
     User2 |-> LV_OBJ_FLAG_USER_2, User3 |-> LV_OBJ_FLAG_USER_3, User4 |-> LV_OBJ_FLAG_USER_4]

\* C10: each enum-to-integer conversion returns, for every variant, exactly
\* the native constant the variant names: the narrowing to u8 or to
\* lv_obj_flag_t never alters it.
C10_ExactConstants ==
    /\ op = "Align" => (arg \in Align /\ res = AlignConst[arg])
    /\ op = "TextAlign" => (arg \in TextAlign /\ res = TextAlignConst[arg])
    /\ op = "AnimationState" => (arg \in AnimationState /\ res = AnimationStateConst[arg])
    /\ op = "LabelLongMode" => (arg \in LabelLongMode /\ res = LabelLongModeConst[arg])
    /\ op = "ObjFlag" => (arg \in ObjFlag /\ res = ObjFlagConst[arg])

\* The widest constant, LV_OBJ_FLAG_USER_4 (bit 30), was returned unaltered.
C10_Witness ==
    op = "ObjFlag" /\ arg = "User4" /\ res = 1073741824

====
